---- MODULE Spec2Model ----
(***************************************************************************)
(* Model of noknow-hub/go_mailer, mailer.go: message assembly and the SMTP *)
(* session driven by Send, and the Send of the legacy single-body API.     *)
(*                                                                         *)
(* Representation.  The message buffer `body` is a sequence of lines; a    *)
(* line is a string and stands for that string followed by "\r\n".  Every  *)
(* append in Send ends with "\r\n", so the buffer always holds a whole     *)
(* number of lines.  A Body's Data is the sequence of the lines it is made *)
(* of when split at "\r\n" (never empty: the empty string is one empty     *)
(* line); the "\r\n" Send appends after Data terminates its last line.     *)
(* Lines are built by string concatenation exactly as the code builds      *)
(* them, so a line coming from Data and a line emitted by Send are equal   *)
(* whenever their bytes are equal.                                         *)
(***************************************************************************)
EXTENDS Integers, Sequences, FiniteSets, TLC

\* ------------------------------------------------------------------ bounds
MaxBodies == 2
MaxSeed == 2

\* --------------------------------------------------------------- constants
CHARSET_UTF8 == "UTF-8"
CONTENT_TYPE_TEXT_HTML == "text/html"
CONTENT_TYPE_TEXT_PLAIN == "text/plain"
MIME_VERSION_1_0 == "1.0"

\* make([]byte, 32) in genBoundary
BoundaryLen == 32

\* the local variable charset of genBoundary, one element per byte
charset ==
  << "1", "2", "3", "4", "5", "6", "7", "8", "9", "0",
     "a", "b", "c", "d", "e", "f", "g", "h", "i", "j", "k", "l", "m",
     "n", "o", "p", "q", "r", "s", "t", "u", "v", "w", "x", "y", "z" >>

Procs == {1, 2}

\* ------------------------------------------------------- random generator
\* rand.NewSource(seed): the state of a generator private to its creator.
\* math/rand is outside the repository; the stream is a deterministic
\* function of the seed (a linear congruential stand-in).
NewSource(seed) == (seed * 25173 + 13849) % 65536
RngAdvance(r) == (r * 25173 + 13849) % 65536
\* r.Intn(n): a value in 0..n-1
Intn(r, n) == (r \div 16) % n

\* string(b) for a byte slice b
RECURSIVE String(_)
String(b) == IF b = <<>> THEN "" ELSE Head(b) \o String(Tail(b))

RECURSIVE FillBoundary(_, _)
FillBoundary(r, i) ==
  IF i = BoundaryLen THEN <<>>
  ELSE <<charset[Intn(r, Len(charset)) + 1]>> \o FillBoundary(RngAdvance(r), i + 1)

\* genBoundary drawing from the process-wide generator (rand.Intn)
genBoundaryGlobal(now, global) ==
  [b |-> FillBoundary(global, 0), global |-> RngAdvance(global)]

\* genBoundary(): now is time.Now().UnixNano(); global is the state of the
\* process-wide generator of math/rand, which the function is handed only to
\* return it untouched.  Result: the bytes b and the process-wide state.
genBoundary(now, global) ==
  [b |-> FillBoundary(NewSource(now), 0), global |-> global]

\* ------------------------------------------------------------------ inputs
Seeds == 0..MaxSeed

GenHeader(from, to, subject, mimeVersion) ==
  [From |-> from, MimeVersion |-> mimeVersion, Subject |-> subject, To |-> to]

Headers == { GenHeader("a@x.com", "b@y.com", "Hi", MIME_VERSION_1_0) }

GenBody(contentType, cs, data) ==
  [ContentType |-> contentType, Charset |-> cs, Data |-> data]

\* a Data holding a line that equals a part-opening line of a boundary the
\* generator can produce
HostileData == << "Hello", "--" \o String(genBoundary(0, 0).b) >>

BodySet ==
  { GenBody(CONTENT_TYPE_TEXT_HTML, CHARSET_UTF8, << "<b>Hi</b>" >>),
    GenBody(CONTENT_TYPE_TEXT_PLAIN, CHARSET_UTF8, HostileData) }

BodyLists == UNION { [1..n -> BodySet] : n \in 0..MaxBodies }

\* *AuthConfig: present is FALSE for a nil pointer; otherwise which of the
\* two pointers of the struct are set
NoAuth == [present |-> FALSE, Crammd5Auth |-> FALSE, PlainAuth |-> FALSE]
AuthConfigs ==
  { NoAuth } \cup [present : {TRUE}, Crammd5Auth : BOOLEAN, PlainAuth : BOOLEAN]

GenParams(header, bodyList, authConfig, tlsConfig) ==
  [AuthConfig |-> authConfig, Body |-> bodyList, Header |-> header,
   TlsConfig |-> tlsConfig]

ParamsSet ==
  { GenParams(h, bl, a, t) :
      h \in Headers, bl \in BodyLists, a \in AuthConfigs, t \in BOOLEAN }

\* ------------------------------------------------------------------- state
\* send[p]: the activation of Send run by caller p (its locals, its position,
\* the handle of its connection, the calls it has made, its return value,
\* and which generation of the API it belongs to).
\* globalRand: the process-wide generator of math/rand.
\* rangeOrders: the orders the runtime takes when a map is ranged over in
\* this run of the process.
VARIABLES send, globalRand, rangeOrders
vars == << send, globalRand, rangeOrders >>

HeaderKeys == { "From", "To", "Subject", "MIME-version" }

\* the orders in which `range headers` can visit the four keys
RangeOrders == { o \in [1..4 -> HeaderKeys] : \A i, j \in 1..4 : o[i] = o[j] => i = j }

HeaderValue(h, k) ==
  CASE k = "From" -> h.From
    [] k = "To" -> h.To
    [] k = "Subject" -> h.Subject
    [] k = "MIME-version" -> h.MimeVersion

Idle ==
  [params |-> GenParams(GenHeader("", "", "", ""), <<>>, NoAuth, FALSE),
   api |-> "current", pc |-> "idle", body |-> <<>>, boundary |-> <<>>,
   conn |-> "none", deferred |-> FALSE, calls |-> <<>>, err |-> "running"]

Called(params) == [Idle EXCEPT !.params = params, !.pc = "assemble"]

\* ---------------------------------------------------------------- assembly
\* lines 259-261: one line per header, in the order the map is ranged over
RECURSIVE HeaderLines(_, _, _)
HeaderLines(h, order, i) ==
  IF i > Len(order) THEN <<>>
  ELSE << order[i] \o ": " \o HeaderValue(h, order[i]) >>
         \o HeaderLines(h, order, i + 1)

ContentTypeLine(b) ==
  "Content-Type: " \o b.ContentType \o "; charset=\"" \o b.Charset \o "\""

\* the body loop wrapping a part in the boundary from one Body on
RECURSIVE BodyLinesFromOne(_, _, _)
BodyLinesFromOne(bodies, boundary, i) ==
  IF i > Len(bodies) THEN <<>>
  ELSE (IF Len(bodies) >= 1
          THEN << "--" \o boundary, ContentTypeLine(bodies[i]) >> \o bodies[i].Data
          ELSE << ContentTypeLine(bodies[i]) >> \o bodies[i].Data)
       \o BodyLinesFromOne(bodies, boundary, i + 1)

\* the body loop emitting the parts from the last Body to the first
RECURSIVE BodyLinesReversed(_, _, _)
BodyLinesReversed(bodies, boundary, i) ==
  IF i > Len(bodies) THEN <<>>
  ELSE LET b == bodies[Len(bodies) + 1 - i]
       IN (IF Len(bodies) > 1
             THEN << "--" \o boundary, ContentTypeLine(b) >> \o b.Data
             ELSE << ContentTypeLine(b) >> \o b.Data)
          \o BodyLinesReversed(bodies, boundary, i + 1)

\* lines 267-273: the loop over params.Body, from element i on
RECURSIVE BodyLines(_, _, _)
BodyLines(bodies, boundary, i) ==
  IF i > Len(bodies) THEN <<>>
  ELSE (IF Len(bodies) > 1
          THEN << "--" \o boundary, ContentTypeLine(bodies[i]) >> \o bodies[i].Data
          ELSE << ContentTypeLine(bodies[i]) >> \o bodies[i].Data)
       \o BodyLines(bodies, boundary, i + 1)

\* the message with the closing line written like an opening line
MessageUnterminated(params, order, b) ==
  HeaderLines(params.Header, order, 1)
  \o (IF Len(params.Body) > 1
        THEN << "Content-Type: multipart/alternative; boundary=\"" \o String(b) \o "\"" >>
        ELSE <<>>)
  \o BodyLines(params.Body, String(b), 1)
  \o (IF Len(params.Body) > 1 THEN << "--" \o String(b) >> ELSE <<>>)

\* lines 252-276 of Send: the message, given the order of the map range and
\* the boundary bytes (<<>> when none was generated)
Message(params, order, b) ==
  HeaderLines(params.Header, order, 1)
  \o (IF Len(params.Body) > 1
        THEN << "Content-Type: multipart/alternative; boundary=\"" \o String(b) \o "\"" >>
        ELSE <<>>)
  \o BodyLines(params.Body, String(b), 1)
  \o (IF Len(params.Body) > 1 THEN << "--" \o String(b) \o "--" >> ELSE <<>>)

\* Send refusing an empty Body list
AssembleStepValidating(s, order, g) ==
  IF Len(s.params.Body) = 0
    THEN [s EXCEPT !.pc = "done", !.err = "no body"]
    ELSE LET b == IF Len(s.params.Body) > 1 THEN g.b ELSE <<>>
         IN [s EXCEPT !.boundary = b,
                      !.body = Message(s.params, order, b),
                      !.pc = "connect"]

\* Send up to line 276 for activation s
AssembleStep(s, order, g) ==
  LET b == IF Len(s.params.Body) > 1 THEN g.b ELSE <<>>
  IN [s EXCEPT !.boundary = b,
               !.body = Message(s.params, order, b),
               !.pc = "connect"]

Assemble(p) ==
  /\ send[p].pc = "assemble"
  /\ \E order \in rangeOrders, now \in Seeds :
       LET g == genBoundary(now, globalRand)
       IN /\ send' = [send EXCEPT ![p] = AssembleStep(send[p], order, g)]
          /\ globalRand' = IF Len(send[p].params.Body) > 1 THEN g.global
                                                            ELSE globalRand
  /\ UNCHANGED rangeOrders

\* --------------------------------------------------------------- transport
\* the text of the error a failing call hands back (err.Error())
ServerErr == "550 rejected"

\* the argument of errors.New at the return that follows each call
ErrorText(call) ==
  CASE call = "tls.Dial" -> "tls.Dial() error. err=" \o ServerErr
    [] call = "smtp.NewClient" -> "smtp.NewClient() error. err=" \o ServerErr
    [] call = "smtp.Dial" -> "smtp.Dial() error. err=" \o ServerErr
    [] call = "Auth" -> "(*Client) Auth() error. err=" \o ServerErr
    [] call = "Mail" -> "(*Client) Mail() error. err=" \o ServerErr
    [] call = "Rcpt" -> "(*Client) Rcpt() error. err=" \o ServerErr
    [] call = "Data" -> "(*Client) Data() error. err=" \o ServerErr
    [] call = "Write" -> "(io.WriteCloser) Write() error. err=" \o ServerErr
    [] call = "wc.Close" -> "(*Client) Quit() error. err=" \o ServerErr
    [] call = "Quit" -> "(*Client) Quit() error. err=" \o ServerErr

\* a call made by Send, with its argument and whether it succeeded
Issue(s, name, arg, ok) ==
  [s EXCEPT !.calls = Append(@, [name |-> name, arg |-> arg, ok |-> ok])]

\* Return with the deferred close left out
ReturnWithoutClose(s, e) == [s EXCEPT !.pc = "done", !.err = e]

\* `return e`: the deferred c.Close() of line 296 runs if it was registered
Return(s, e) ==
  IF s.deferred
    THEN [Issue(s, "c.Close", <<>>, TRUE) EXCEPT !.pc = "done", !.err = e,
                                                  !.conn = "closed"]
    ELSE [s EXCEPT !.pc = "done", !.err = e]

\* lines 299-312: which authentication, if any, comes next
AfterCram(params) ==
  IF params.AuthConfig.present /\ params.AuthConfig.PlainAuth THEN "plain" ELSE "mail"

AfterConnect(params) ==
  IF params.AuthConfig.present /\ params.AuthConfig.Crammd5Auth THEN "cram"
  ELSE AfterCram(params)

\* line 296 and the way to the next call
Connected(s) == [s EXCEPT !.deferred = TRUE, !.pc = AfterConnect(s.params)]

\* a failed TLS dial falling back to a plain connection
TlsDialStepFallback(s, ok) ==
  LET t == Issue(s, "tls.Dial", <<>>, ok)
  IN IF ok THEN [t EXCEPT !.conn = "open", !.pc = "newclient"]
     ELSE Connected([Issue(t, "smtp.Dial", <<>>, TRUE) EXCEPT !.conn = "open"])

\* lines 282-285
TlsDialStep(s, ok) ==
  LET t == Issue(s, "tls.Dial", <<>>, ok)
  IN IF ok THEN [t EXCEPT !.conn = "open", !.pc = "newclient"]
     ELSE Return(t, ErrorText("tls.Dial"))

\* lines 286-289; smtp.NewClient closes the connection it was given when it
\* fails (net/smtp: text.Close() before returning the error)
NewClientStep(s, ok) ==
  LET t == Issue(s, "smtp.NewClient", <<>>, ok)
  IN IF ok THEN Connected(t)
     ELSE Return([t EXCEPT !.conn = "closed"], ErrorText("smtp.NewClient"))

\* smtp.Dial tried a second time after a first failure
SmtpDialStepRetry(s, ok) ==
  LET t == Issue(s, "smtp.Dial", <<>>, ok)
  IN IF ok THEN Connected([t EXCEPT !.conn = "open"])
     ELSE IF s.calls = <<>> THEN t
     ELSE Return(t, ErrorText("smtp.Dial"))

\* lines 291-294; a failed smtp.Dial leaves no connection behind
SmtpDialStep(s, ok) ==
  LET t == Issue(s, "smtp.Dial", <<>>, ok)
  IN IF ok THEN Connected([t EXCEPT !.conn = "open"])
     ELSE Return(t, ErrorText("smtp.Dial"))

\* CRAM-MD5 authentication with its error left unchecked
AuthCramStepUnchecked(s, ok) ==
  [Issue(s, "Auth", << "CRAM-MD5" >>, ok) EXCEPT !.pc = AfterCram(s.params)]

\* lines 300-305
AuthCramStep(s, ok) ==
  LET t == Issue(s, "Auth", << "CRAM-MD5" >>, ok)
  IN IF ok THEN [t EXCEPT !.pc = AfterCram(s.params)]
     ELSE Return(t, ErrorText("Auth"))

\* lines 306-311
AuthPlainStep(s, ok) ==
  LET t == Issue(s, "Auth", << "PLAIN" >>, ok)
  IN IF ok THEN [t EXCEPT !.pc = "mail"]
     ELSE Return(t, ErrorText("Auth"))

\* Mail with its error left unchecked
MailStepUnchecked(s, ok) ==
  [Issue(s, "Mail", << s.params.Header.From >>, ok) EXCEPT !.pc = "rcpt"]

\* lines 315-317
MailStep(s, ok) ==
  LET t == Issue(s, "Mail", << s.params.Header.From >>, ok)
  IN IF ok THEN [t EXCEPT !.pc = "rcpt"]
     ELSE Return(t, ErrorText("Mail"))

\* Rcpt reporting its failure under the name of Mail
RcptStepWrongName(s, ok) ==
  LET t == Issue(s, "Rcpt", << s.params.Header.To >>, ok)
  IN IF ok THEN [t EXCEPT !.pc = "data"]
     ELSE Return(t, ErrorText("Mail"))

\* Rcpt carrying the sender
RcptStepFrom(s, ok) ==
  LET t == Issue(s, "Rcpt", << s.params.Header.From >>, ok)
  IN IF ok THEN [t EXCEPT !.pc = "data"]
     ELSE Return(t, ErrorText("Rcpt"))

\* lines 318-320
RcptStep(s, ok) ==
  LET t == Issue(s, "Rcpt", << s.params.Header.To >>, ok)
  IN IF ok THEN [t EXCEPT !.pc = "data"]
     ELSE Return(t, ErrorText("Rcpt"))

\* lines 321-324
DataStep(s, ok) ==
  LET t == Issue(s, "Data", <<>>, ok)
  IN IF ok THEN [t EXCEPT !.pc = "write"]
     ELSE Return(t, ErrorText("Data"))

\* lines 325-328
WriteStep(s, ok) ==
  LET t == Issue(s, "Write", s.body, ok)
  IN IF ok THEN [t EXCEPT !.pc = "wcclose"]
     ELSE Return(t, ErrorText("Write"))

\* Data-close returning without the Quit
WcCloseStepSkipsQuit(s, ok) ==
  LET t == Issue(s, "wc.Close", <<>>, ok)
  IN IF ok THEN Return(t, "nil")
     ELSE Return(t, ErrorText("wc.Close"))

\* lines 329-331
WcCloseStep(s, ok) ==
  LET t == Issue(s, "wc.Close", <<>>, ok)
  IN IF ok THEN [t EXCEPT !.pc = "quit"]
     ELSE Return(t, ErrorText("wc.Close"))

\* Quit with its error dropped
QuitStepErrorDropped(s, ok) ==
  LET t == Issue(s, "Quit", <<>>, ok)
  IN IF ok THEN Return([t EXCEPT !.conn = "closed"], "nil")
     ELSE Return(t, "nil")

\* lines 332-335; a successful Quit closes the connection itself
QuitStep(s, ok) ==
  LET t == Issue(s, "Quit", <<>>, ok)
  IN IF ok THEN Return([t EXCEPT !.conn = "closed"], "nil")
     ELSE Return(t, ErrorText("Quit"))

\* ----------------------------------------------------------------- actions
TlsDial(p) ==
  /\ send[p].pc = "connect"
  /\ send[p].params.TlsConfig
  /\ \E ok \in BOOLEAN : send' = [send EXCEPT ![p] = TlsDialStep(send[p], ok)]
  /\ UNCHANGED << globalRand, rangeOrders >>

NewClient(p) ==
  /\ send[p].pc = "newclient"
  /\ \E ok \in BOOLEAN : send' = [send EXCEPT ![p] = NewClientStep(send[p], ok)]
  /\ UNCHANGED << globalRand, rangeOrders >>

SmtpDial(p) ==
  /\ send[p].pc = "connect"
  /\ ~send[p].params.TlsConfig
  /\ \E ok \in BOOLEAN : send' = [send EXCEPT ![p] = SmtpDialStep(send[p], ok)]
  /\ UNCHANGED << globalRand, rangeOrders >>

AuthCram(p) ==
  /\ send[p].pc = "cram"
  /\ \E ok \in BOOLEAN : send' = [send EXCEPT ![p] = AuthCramStep(send[p], ok)]
  /\ UNCHANGED << globalRand, rangeOrders >>

AuthPlain(p) ==
  /\ send[p].pc = "plain"
  /\ \E ok \in BOOLEAN : send' = [send EXCEPT ![p] = AuthPlainStep(send[p], ok)]
  /\ UNCHANGED << globalRand, rangeOrders >>

Mail(p) ==
  /\ send[p].pc = "mail"
  /\ \E ok \in BOOLEAN : send' = [send EXCEPT ![p] = MailStep(send[p], ok)]
  /\ UNCHANGED << globalRand, rangeOrders >>

Rcpt(p) ==
  /\ send[p].pc = "rcpt"
  /\ \E ok \in BOOLEAN : send' = [send EXCEPT ![p] = RcptStep(send[p], ok)]
  /\ UNCHANGED << globalRand, rangeOrders >>

Data(p) ==
  /\ send[p].pc = "data"
  /\ \E ok \in BOOLEAN : send' = [send EXCEPT ![p] = DataStep(send[p], ok)]
  /\ UNCHANGED << globalRand, rangeOrders >>

Write(p) ==
  /\ send[p].pc = "write"
  /\ \E ok \in BOOLEAN : send' = [send EXCEPT ![p] = WriteStep(send[p], ok)]
  /\ UNCHANGED << globalRand, rangeOrders >>

WcClose(p) ==
  /\ send[p].pc = "wcclose"
  /\ \E ok \in BOOLEAN : send' = [send EXCEPT ![p] = WcCloseStep(send[p], ok)]
  /\ UNCHANGED << globalRand, rangeOrders >>

Quit(p) ==
  /\ send[p].pc = "quit"
  /\ \E ok \in BOOLEAN : send' = [send EXCEPT ![p] = QuitStep(send[p], ok)]
  /\ UNCHANGED << globalRand, rangeOrders >>

\* one caller runs Send once, with any Params
Init ==
  /\ \E params \in ParamsSet :
       send = [p \in Procs |-> IF p = 1 THEN Called(params) ELSE Idle]
  /\ globalRand = 0
  /\ rangeOrders = RangeOrders

Next ==
  \E p \in Procs :
    \/ Assemble(p)
    \/ TlsDial(p)
    \/ NewClient(p)
    \/ SmtpDial(p)
    \/ AuthCram(p)
    \/ AuthPlain(p)
    \/ Mail(p)
    \/ Rcpt(p)
    \/ Data(p)
    \/ Write(p)
    \/ WcClose(p)
    \/ Quit(p)

Spec == Init /\ [][Next]_vars

\* ------------------------------------------------------------- properties
\* the calls of an activation that talk to the server (everything but the
\* deferred release of the connection)
Commands(s) == SelectSeq(s.calls, LAMBDA c : c.name # "c.Close")

\* position of a call in Connect, Authenticate, Mail, Rcpt, Data-open,
\* Data-write, Data-close, Quit; the release of the connection comes after
StepOf(name) ==
  CASE name \in { "tls.Dial", "smtp.NewClient", "smtp.Dial" } -> 1
    [] name = "Auth" -> 2
    [] name = "Mail" -> 3
    [] name = "Rcpt" -> 4
    [] name = "Data" -> 5
    [] name = "Write" -> 6
    [] name = "wc.Close" -> 7
    [] name = "Quit" -> 8
    [] name = "c.Close" -> 9

Returned(s) == s.pc = "done"

\* C1: the calls of a Send follow the order Connect, Authenticate, Mail,
\* Rcpt, Data-open, Data-write, Data-close, Quit: a call is made only after
\* every earlier call succeeded and after every earlier step was taken
\* (Authenticate being optional and taken only with an AuthConfig), no call
\* is made twice, the steps from Mail on consist of a single call, and no
\* call belongs to an earlier step than a call made before it.
C1_FixedStepOrder ==
  \A p \in Procs :
    LET c == Commands(send[p])
    IN /\ \A i, j \in 1..Len(c) :
            i < j => /\ c[i].ok
                     /\ StepOf(c[i].name) <= StepOf(c[j].name)
                     /\ StepOf(c[i].name) = StepOf(c[j].name)
                          => StepOf(c[i].name) \in {1, 2}
                     /\ << c[i].name, c[i].arg >> # << c[j].name, c[j].arg >>
       /\ \A j \in 1..Len(c) :
            /\ (1..(StepOf(c[j].name) - 1)) \ {2}
                  \subseteq { StepOf(c[i].name) : i \in 1..(j - 1) }
            /\ c[j].name = "Auth" => send[p].params.AuthConfig.present

C1_Witness ==
  \E p \in Procs :
    /\ Returned(send[p])
    /\ send[p].params.TlsConfig
    /\ send[p].params.AuthConfig.Crammd5Auth
    /\ send[p].params.AuthConfig.PlainAuth
    /\ Len(Commands(send[p])) = 10

\* C2: when Send has returned, at whatever call it failed or after success,
\* the connection it opened is not open any more.
C2_NoOpenConnectionAfterReturn ==
  \A p \in Procs : Returned(send[p]) => send[p].conn # "open"

C2_Witness ==
  \E p \in Procs :
    /\ Returned(send[p])
    /\ send[p].err # "nil"
    /\ send[p].conn = "closed"
    /\ \E i \in 1..Len(send[p].calls) :
         send[p].calls[i].name = "Write" /\ ~send[p].calls[i].ok

ConnectErrors ==
  { "tls.Dial() error. err=550 rejected",
    "smtp.NewClient() error. err=550 rejected",
    "smtp.Dial() error. err=550 rejected" }

ConnectFailed(s) ==
  \E i \in 1..Len(s.calls) : StepOf(s.calls[i].name) = 1 /\ ~s.calls[i].ok

\* C3: once a call of the Connect step has failed, Send has returned a
\* connection error, the failed call was its last call (no retry, no Auth,
\* Mail, Rcpt, Data, Write, Close or Quit), and it was made once.
C3_ConnectFailureAborts ==
  \A p \in Procs :
    \A i \in 1..Len(send[p].calls) :
      (StepOf(send[p].calls[i].name) = 1 /\ ~send[p].calls[i].ok)
        => /\ Returned(send[p])
           /\ send[p].err \in ConnectErrors
           /\ i = Len(send[p].calls)
           /\ \A j \in 1..(i - 1) : send[p].calls[j].name # send[p].calls[i].name

C3_Witness ==
  \E p \in Procs :
    /\ Returned(send[p])
    /\ ~send[p].params.TlsConfig
    /\ ConnectFailed(send[p])

\* C4: once Rcpt has failed, Send has returned the error that names Rcpt, no
\* Data, Write, Close or Quit was attempted, and the connection is closed.
C4_RcptFailure ==
  \A p \in Procs :
    \A i \in 1..Len(send[p].calls) :
      (send[p].calls[i].name = "Rcpt" /\ ~send[p].calls[i].ok)
        => /\ Returned(send[p])
           /\ send[p].err = "(*Client) Rcpt() error. err=550 rejected"
           /\ \A j \in 1..Len(send[p].calls) :
                send[p].calls[j].name \notin { "Data", "Write", "wc.Close", "Quit" }
           /\ send[p].conn = "closed"

C4_Witness ==
  \E p \in Procs :
    /\ Returned(send[p])
    /\ \E i \in 1..Len(send[p].calls) :
         send[p].calls[i].name = "Rcpt" /\ ~send[p].calls[i].ok

ProtocolCalls == { "Mail", "Rcpt", "Data", "Write", "wc.Close", "Quit" }

\* C5: when one of Mail, Rcpt, Data-open, Data-write, Data-close, Quit
\* fails, the error Send returns is not the error it returns for a failure
\* of any other of these steps: the error tells which step failed.
C5_ErrorNamesFailedStep ==
  \A p \in Procs :
    \A i \in 1..Len(send[p].calls) :
      (send[p].calls[i].name \in ProtocolCalls /\ ~send[p].calls[i].ok)
        => \A other \in ProtocolCalls \ { send[p].calls[i].name } :
             send[p].err # ErrorText(other)

\* C6: Send returns nil exactly when every call up to and including Quit
\* succeeded; a failed call makes Send return an error at once, is followed
\* by nothing but the release of the connection, and was made only once.
C6_AllOrFirstFailure ==
  \A p \in Procs :
    LET c == send[p].calls
    IN /\ Returned(send[p])
            => (send[p].err = "nil"
                  <=> /\ \A i \in 1..Len(c) : c[i].ok
                      /\ \E i \in 1..Len(c) : c[i].name = "Quit")
       /\ ~Returned(send[p]) => send[p].err = "running"
       /\ \A i \in 1..Len(c) :
            ~c[i].ok => /\ Returned(send[p])
                        /\ send[p].err \notin { "nil", "running" }
                        /\ \A j \in (i + 1)..Len(c) : c[j].name = "c.Close"
                        /\ \A j \in 1..(i - 1) :
                             << c[j].name, c[j].arg >> # << c[i].name, c[i].arg >>

C6_Witness ==
  \E p \in Procs :
    /\ Returned(send[p])
    /\ send[p].err # "nil"
    /\ \E i \in 1..Len(send[p].calls) :
         send[p].calls[i].name = "Quit" /\ ~send[p].calls[i].ok

Assembled(s) == s.pc \notin { "idle", "assemble" }

\* C7: the assembled message begins with the lines From, To, Subject,
\* MIME-version, in this order.
C7_HeaderOrderFixed ==
  \A p \in Procs :
    Assembled(send[p])
      => SubSeq(send[p].body, 1, 4)
           = << "From: " \o send[p].params.Header.From,
                "To: " \o send[p].params.Header.To,
                "Subject: " \o send[p].params.Header.Subject,
                "MIME-version: " \o send[p].params.Header.MimeVersion >>

\* the tokens genBoundary can return within the bounds, and the lines made
\* of them
Tokens == { String(genBoundary(now, 0).b) : now \in Seeds }
OpeningLine(token) == "--" \o token
ClosingLine(token) == "--" \o token \o "--"
MultipartLine(token) ==
  "Content-Type: multipart/alternative; boundary=\"" \o token \o "\""
PartContentType(contentType, cs) ==
  "Content-Type: " \o contentType \o "; charset=\"" \o cs \o "\""
ContentTypeLines ==
  { PartContentType(b.ContentType, b.Charset) : b \in BodySet }
    \cup { MultipartLine(t) : t \in Tokens }
Count(m, line) == Cardinality({ i \in 1..Len(m) : m[i] = line })
HeaderLineSet(h) ==
  { "From: " \o h.From, "To: " \o h.To, "Subject: " \o h.Subject,
    "MIME-version: " \o h.MimeVersion }

WriteDone(s) ==
  \E i \in 1..Len(s.calls) : s.calls[i].name = "Write" /\ s.calls[i].ok

RECURSIVE PartLinesBefore(_, _)
PartLinesBefore(bodies, k) ==
  IF k <= 1 THEN 0
  ELSE 2 + Len(bodies[k - 1].Data) + PartLinesBefore(bodies, k - 1)

\* no line of any Data is one of the three lines made of the boundary
NoCollision(s) ==
  LET t == String(s.boundary)
  IN \A k \in 1..Len(s.params.Body) :
       \A i \in 1..Len(s.params.Body[k].Data) :
         s.params.Body[k].Data[i]
           \notin { OpeningLine(t), ClosingLine(t), MultipartLine(t) }

\* C9 as claimed: with N >= 2 bodies, whatever the Data, the message holds
\* one multipart/alternative line before the parts, exactly N lines
\* --<boundary>, each right before a Content-Type line, and exactly one
\* line --<boundary>--, which is its last line.
C9_BoundaryLinesAnyData ==
  \A p \in Procs :
    (Assembled(send[p]) /\ Len(send[p].params.Body) >= 2)
      => LET m == send[p].body
             t == String(send[p].boundary)
         IN /\ m[5] = MultipartLine(t)
            /\ Count(m, MultipartLine(t)) = 1
            /\ Count(m, OpeningLine(t)) = Len(send[p].params.Body)
            /\ \A i \in 1..(Len(m) - 1) :
                 m[i] = OpeningLine(t) => m[i + 1] \in ContentTypeLines
            /\ Count(m, ClosingLine(t)) = 1
            /\ m[Len(m)] = ClosingLine(t)

\* C9 as amended: with N >= 2 bodies, whatever the Data, line 5 of the
\* message is the multipart/alternative line, part k begins with the line
\* --<boundary> followed by its Content-Type line and its Data, the last
\* line is --<boundary>--, all with the one generated token; the message
\* holds exactly N lines --<boundary>, one line --<boundary>-- and one
\* multipart/alternative line when no line of a Data equals one of them.
C9_BoundaryLines ==
  \A p \in Procs :
    (Assembled(send[p]) /\ Len(send[p].params.Body) >= 2)
      => LET m == send[p].body
             bodies == send[p].params.Body
             n == Len(bodies)
             t == String(send[p].boundary)
             start(k) == 6 + PartLinesBefore(bodies, k)
         IN /\ Len(m) = start(n + 1)
            /\ m[5] = MultipartLine(t)
            /\ \A k \in 1..n :
                 /\ m[start(k)] = OpeningLine(t)
                 /\ m[start(k) + 1]
                      = PartContentType(bodies[k].ContentType, bodies[k].Charset)
                 /\ SubSeq(m, start(k) + 2, start(k + 1) - 1) = bodies[k].Data
            /\ m[Len(m)] = ClosingLine(t)
            /\ NoCollision(send[p])
                 => /\ Count(m, MultipartLine(t)) = 1
                    /\ Count(m, OpeningLine(t)) = n
                    /\ Count(m, ClosingLine(t)) = 1

C9_Witness ==
  \E p \in Procs :
    /\ Len(send[p].params.Body) >= 2
    /\ \E k \in 1..Len(send[p].params.Body) :
         send[p].params.Body[k].Data = HostileData
    /\ NoCollision(send[p])
    /\ WriteDone(send[p])

BoundaryAlphabet ==
  { "0", "1", "2", "3", "4", "5", "6", "7", "8", "9",
    "a", "b", "c", "d", "e", "f", "g", "h", "i", "j", "k", "l", "m",
    "n", "o", "p", "q", "r", "s", "t", "u", "v", "w", "x", "y", "z" }

\* C10: a token returned by genBoundary has exactly 32 characters, each in
\* [0-9a-z], for every seed (for every seed where Send is about to call
\* it, and for the token Send then holds), and generating it leaves the
\* process-wide generator as it was.
C10_BoundaryToken ==
  /\ globalRand = 0
  /\ \A p \in Procs, now \in Seeds :
       send[p].pc = "assemble"
         => LET g == genBoundary(now, globalRand)
            IN /\ Len(g.b) = 32
               /\ \A i \in 1..Len(g.b) : g.b[i] \in BoundaryAlphabet
               /\ Len(String(g.b)) = 32
               /\ g.global = globalRand
  /\ \A p \in Procs :
       (Assembled(send[p]) /\ Len(send[p].params.Body) > 1)
         => /\ Len(send[p].boundary) = 32
            /\ \A i \in 1..Len(send[p].boundary) :
                 send[p].boundary[i] \in BoundaryAlphabet

C10_Witness ==
  \E p \in Procs :
    /\ Returned(send[p])
    /\ Len(send[p].boundary) = 32
    /\ send[p].boundary # genBoundary(0, 0).b

\* Reading a multipart message back.  A part runs from a line --<token> to
\* the next such line or to the line --<token>--; its first line is its
\* Content-Type line and the lines after it are its Data.
RECURSIVE SplitParts(_, _, _, _, _)
SplitParts(m, i, token, open, parts) ==
  IF i > Len(m) THEN parts
  ELSE IF m[i] = ClosingLine(token) THEN parts
  ELSE IF m[i] = OpeningLine(token)
    THEN SplitParts(m, i + 1, token, TRUE, Append(parts, <<>>))
  ELSE IF open
    THEN SplitParts(m, i + 1, token, TRUE,
                    [parts EXCEPT ![Len(parts)] = Append(@, m[i])])
  ELSE SplitParts(m, i + 1, token, FALSE, parts)

Unreadable == GenBody("", "", <<>>)

\* the Body a part stands for: the type and charset its first line spells
ReadPart(lines) ==
  IF lines = <<>> THEN Unreadable
  ELSE LET known == { b \in BodySet :
                        PartContentType(b.ContentType, b.Charset) = lines[1] }
       IN IF known = {} \/ Len(lines) < 2 THEN Unreadable
          ELSE LET b == CHOOSE x \in known : TRUE
               IN GenBody(b.ContentType, b.Charset, Tail(lines))

ReadParts(m, token) ==
  LET parts == SplitParts(m, 6, token, FALSE, <<>>)
  IN [k \in 1..Len(parts) |-> ReadPart(parts[k])]

\* C11 as claimed: with N >= 2 bodies, reading the parts back out of the
\* message yields the sequence Params.Body, whatever the Data.
C11_RoundTripAnyData ==
  \A p \in Procs :
    (Assembled(send[p]) /\ Len(send[p].params.Body) >= 2)
      => ReadParts(send[p].body, String(send[p].boundary)) = send[p].params.Body

\* C11 as amended: with N >= 2 bodies, the lines right before the closing
\* line are the Content-Type line and the Data of the last Body, after the
\* line --<boundary>, whatever the Data; and reading the parts back yields
\* the sequence Params.Body when no line of a Data equals a line made of
\* the boundary.
C11_RoundTrip ==
  \A p \in Procs :
    (Assembled(send[p]) /\ Len(send[p].params.Body) >= 2)
      => LET m == send[p].body
             bodies == send[p].params.Body
             t == String(send[p].boundary)
             last == bodies[Len(bodies)]
             from == Len(m) - Len(last.Data) - 2
         IN /\ m[Len(m)] = ClosingLine(t)
            /\ SubSeq(m, from, Len(m) - 1)
                 = << OpeningLine(t),
                      PartContentType(last.ContentType, last.Charset) >>
                   \o last.Data
            /\ NoCollision(send[p]) => ReadParts(m, t) = bodies

C11_Witness ==
  \E p \in Procs :
    /\ Len(send[p].params.Body) = 2
    /\ send[p].params.Body[1] # send[p].params.Body[2]
    /\ send[p].params.Body[2].ContentType = CONTENT_TYPE_TEXT_HTML
    /\ NoCollision(send[p])
    /\ WriteDone(send[p])

\* the mechanism of an Auth call is populated in the AuthConfig
Populated(params, arg) ==
  /\ params.AuthConfig.present
  /\ arg = << "CRAM-MD5" >> => params.AuthConfig.Crammd5Auth
  /\ arg = << "PLAIN" >> => params.AuthConfig.PlainAuth

\* C12: Auth is called only with an AuthConfig, for a populated mechanism
\* and after Connect succeeded; CRAM-MD5 comes before PLAIN and PLAIN is
\* tried only after CRAM-MD5 succeeded; a failed Auth makes Send return the
\* Auth error with no further call; Mail is issued only after every
\* populated mechanism succeeded.
C12_Authentication ==
  \A p \in Procs :
    LET c == Commands(send[p])
        params == send[p].params
        authOk(mech) == \E i \in 1..Len(c) :
                          c[i].name = "Auth" /\ c[i].arg = << mech >> /\ c[i].ok
    IN /\ \A j \in 1..Len(c) :
            c[j].name = "Auth"
              => /\ Populated(params, c[j].arg)
                 /\ \E i \in 1..(j - 1) :
                      c[i].name \in { "smtp.NewClient", "smtp.Dial" } /\ c[i].ok
                 /\ \A i \in 1..(j - 1) :
                      c[i].name = "Auth"
                        => /\ c[i].arg = << "CRAM-MD5" >>
                           /\ c[j].arg = << "PLAIN" >>
                           /\ c[i].ok
                 /\ ~c[j].ok
                      => /\ Returned(send[p])
                         /\ send[p].err = "(*Client) Auth() error. err=550 rejected"
                         /\ j = Len(c)
       /\ (\E j \in 1..Len(c) : c[j].name = "Mail")
            => /\ (params.AuthConfig.present /\ params.AuthConfig.Crammd5Auth)
                    => authOk("CRAM-MD5")
               /\ (params.AuthConfig.present /\ params.AuthConfig.PlainAuth)
                    => authOk("PLAIN")

C12_Witness ==
  \E p \in Procs :
    LET c == Commands(send[p])
    IN /\ Returned(send[p])
       /\ Len(c) >= 2
       /\ c[Len(c)].name = "Auth" /\ c[Len(c)].arg = << "PLAIN" >> /\ ~c[Len(c)].ok
       /\ c[Len(c) - 1].name = "Auth" /\ c[Len(c) - 1].ok

\* ------------------------------------------------------- concurrent Sends
\* the step Send takes next from position s.pc, given the outcome of its call
StepAt(s, ok) ==
  CASE s.pc = "connect" -> IF s.params.TlsConfig THEN TlsDialStep(s, ok)
                                                  ELSE SmtpDialStep(s, ok)
    [] s.pc = "newclient" -> NewClientStep(s, ok)
    [] s.pc = "cram" -> AuthCramStep(s, ok)
    [] s.pc = "plain" -> AuthPlainStep(s, ok)
    [] s.pc = "mail" -> MailStep(s, ok)
    [] s.pc = "rcpt" -> RcptStep(s, ok)
    [] s.pc = "data" -> DataStep(s, ok)
    [] s.pc = "write" -> WriteStep(s, ok)
    [] s.pc = "wcclose" -> WcCloseStep(s, ok)
    [] s.pc = "quit" -> QuitStep(s, ok)

RECURSIVE Replay(_, _, _)
Replay(s, c, i) ==
  IF i > Len(c) THEN s ELSE Replay(StepAt(s, c[i].ok), c, i + 1)

\* Send run alone in a fresh process: Params, the order of the map range,
\* the clock, and the outcomes of the calls c
RunAlone(params, order, now, c) ==
  Replay(AssembleStep(Called(params), order, genBoundary(now, 0)), c, 1)

\* the map orders of the concurrent runs
ConcOrders ==
  { << "From", "To", "Subject", "MIME-version" >>,
    << "MIME-version", "Subject", "To", "From" >> }

\* two callers, each with its own Params: one over TLS with both
\* authentications, one in plain text without; two different bodies each,
\* in opposite orders
ConcParams(p) ==
  { GenParams(h, bl, a, p = 1) :
      h \in Headers,
      bl \in { x \in [1..2 -> BodySet] :
                 /\ x[1] # x[2]
                 /\ x[p].ContentType = CONTENT_TYPE_TEXT_HTML },
      a \in { x \in AuthConfigs :
                IF p = 1 THEN x.Crammd5Auth /\ x.PlainAuth ELSE ~x.present } }

InitConc ==
  /\ \E p1 \in ConcParams(1), p2 \in ConcParams(2) :
       send = [p \in Procs |-> IF p = 1 THEN Called(p1) ELSE Called(p2)]
  /\ globalRand = 0
  /\ rangeOrders = ConcOrders

SpecConc == InitConc /\ [][Next]_vars

\* C13: under every interleaving of two Sends, the activation of each
\* (its message, its boundary, its connection, its calls, its result) is
\* the one it has when it runs alone with the same map order, clock and
\* call outcomes, and the process-wide generator is left as it was.
C13_NoSharedState ==
  /\ globalRand = 0
  /\ \A p \in Procs :
       Assembled(send[p])
         => \E order \in rangeOrders, now \in Seeds :
              send[p] = RunAlone(send[p].params, order, now, Commands(send[p]))

C13_Witness ==
  /\ send[1].conn = "open"
  /\ send[2].conn = "open"
  /\ Len(send[1].boundary) = 32
  /\ Len(send[2].boundary) = 32
  /\ send[1].boundary # send[2].boundary
  /\ send[1].body # send[2].body

\* ------------------------------------------------ legacy single-body API
\* genContentType(isHtml, charset)
genContentType(isHtml, cs) ==
  IF isHtml THEN "Content-Type: text/html; charset=\"" \o cs \o "\";"
  ELSE "Content-Type: text/plain; charset=\"" \o cs \o "\";"

\* legacy GenHeader
LegacyGenHeader(from, to, subject, mimeVersion, isHtml, cs) ==
  [From |-> from, MimeVersion |-> mimeVersion,
   ContentType |-> genContentType(isHtml, cs), Subject |-> subject, To |-> to]

\* legacy GenParams; Body is one string, held as its lines
LegacyGenParams(header, bodyText, authConfig, tlsConfig) ==
  [AuthConfig |-> authConfig, Body |-> bodyText, Header |-> header,
   TlsConfig |-> tlsConfig]

\* the legacy call that corresponds to a current call with one Body
LegacyOf(params) ==
  LegacyGenParams(
    LegacyGenHeader(params.Header.From, params.Header.To, params.Header.Subject,
                    params.Header.MimeVersion,
                    params.Body[1].ContentType = CONTENT_TYPE_TEXT_HTML,
                    params.Body[1].Charset),
    params.Body[1].Data, params.AuthConfig, params.TlsConfig)

\* legacy lines 285-288: the value of MIME-version holds "\r\n" and the
\* Content-Type, so that key yields two lines
RECURSIVE LegacyHeaderLines(_, _, _)
LegacyHeaderLines(h, order, i) ==
  IF i > Len(order) THEN <<>>
  ELSE (IF order[i] = "MIME-version"
          THEN << "MIME-version: " \o h.MimeVersion, h.ContentType >>
          ELSE << order[i] \o ": " \o HeaderValue(h, order[i]) >>)
       \o LegacyHeaderLines(h, order, i + 1)

\* legacy lines 279-289: the header lines, the empty line of "\r\n", the
\* body text; the last line is not followed by "\r\n"
LegacyMessage(params, order) ==
  LegacyHeaderLines(params.Header, order, 1) \o << "" >> \o params.Body

LegacyPc(at) == "legacy." \o at

LegacyCalled(params) ==
  [Idle EXCEPT !.params = params, !.api = "legacy", !.pc = LegacyPc("assemble")]

LegacyAssembleStep(s, order) ==
  [s EXCEPT !.body = LegacyMessage(s.params, order), !.pc = LegacyPc("connect")]

\* a legacy call: on success go on, on failure `return err`
LegacyCall(s, name, arg, ok, next) ==
  LET t == Issue(s, name, arg, ok)
  IN IF ok THEN [t EXCEPT !.pc = LegacyPc(next)] ELSE Return(t, ServerErr)

\* legacy lines 295-298
LegacyTlsDialStep(s, ok) ==
  LET t == LegacyCall(s, "tls.Dial", <<>>, ok, "newclient")
  IN IF ok THEN [t EXCEPT !.conn = "open"] ELSE t

\* legacy lines 299-302 and 310
LegacyNewClientStep(s, ok) ==
  IF ok
    THEN [LegacyCall(s, "smtp.NewClient", <<>>, ok, AfterConnect(s.params))
            EXCEPT !.deferred = TRUE]
    ELSE LegacyCall([s EXCEPT !.conn = "closed"], "smtp.NewClient", <<>>, ok, "")

\* legacy lines 304-307 and 310
LegacySmtpDialStep(s, ok) ==
  LET t == LegacyCall(s, "smtp.Dial", <<>>, ok, AfterConnect(s.params))
  IN IF ok THEN [t EXCEPT !.conn = "open", !.deferred = TRUE] ELSE t

\* legacy lines 314-319
LegacyAuthCramStep(s, ok) ==
  LegacyCall(s, "Auth", << "CRAM-MD5" >>, ok, AfterCram(s.params))
\* legacy lines 320-325
LegacyAuthPlainStep(s, ok) == LegacyCall(s, "Auth", << "PLAIN" >>, ok, "mail")
\* legacy lines 329-331
LegacyMailStep(s, ok) ==
  LegacyCall(s, "Mail", << s.params.Header.From >>, ok, "rcpt")
\* legacy lines 332-334
LegacyRcptStep(s, ok) ==
  LegacyCall(s, "Rcpt", << s.params.Header.To >>, ok, "data")
\* legacy lines 335-338
LegacyDataStep(s, ok) == LegacyCall(s, "Data", <<>>, ok, "write")
\* legacy lines 339-342
LegacyWriteStep(s, ok) == LegacyCall(s, "Write", s.body, ok, "wcclose")
\* legacy lines 343-345
LegacyWcCloseStep(s, ok) == LegacyCall(s, "wc.Close", <<>>, ok, "quit")
\* legacy lines 346-349
LegacyQuitStep(s, ok) ==
  LET t == Issue(s, "Quit", <<>>, ok)
  IN IF ok THEN Return([t EXCEPT !.conn = "closed"], "nil")
     ELSE Return(t, ServerErr)

LegacyAssemble(p) ==
  /\ send[p].pc = LegacyPc("assemble")
  /\ \E order \in rangeOrders :
       send' = [send EXCEPT ![p] = LegacyAssembleStep(send[p], order)]
  /\ UNCHANGED << globalRand, rangeOrders >>

LegacyTlsDial(p) ==
  /\ send[p].pc = LegacyPc("connect")
  /\ send[p].params.TlsConfig
  /\ \E ok \in BOOLEAN : send' = [send EXCEPT ![p] = LegacyTlsDialStep(send[p], ok)]
  /\ UNCHANGED << globalRand, rangeOrders >>

LegacyNewClient(p) ==
  /\ send[p].pc = LegacyPc("newclient")
  /\ \E ok \in BOOLEAN : send' = [send EXCEPT ![p] = LegacyNewClientStep(send[p], ok)]
  /\ UNCHANGED << globalRand, rangeOrders >>

LegacySmtpDial(p) ==
  /\ send[p].pc = LegacyPc("connect")
  /\ ~send[p].params.TlsConfig
  /\ \E ok \in BOOLEAN : send' = [send EXCEPT ![p] = LegacySmtpDialStep(send[p], ok)]
  /\ UNCHANGED << globalRand, rangeOrders >>

LegacyAuthCram(p) ==
  /\ send[p].pc = LegacyPc("cram")
  /\ \E ok \in BOOLEAN : send' = [send EXCEPT ![p] = LegacyAuthCramStep(send[p], ok)]
  /\ UNCHANGED << globalRand, rangeOrders >>

LegacyAuthPlain(p) ==
  /\ send[p].pc = LegacyPc("plain")
  /\ \E ok \in BOOLEAN : send' = [send EXCEPT ![p] = LegacyAuthPlainStep(send[p], ok)]
  /\ UNCHANGED << globalRand, rangeOrders >>

LegacyMail(p) ==
  /\ send[p].pc = LegacyPc("mail")
  /\ \E ok \in BOOLEAN : send' = [send EXCEPT ![p] = LegacyMailStep(send[p], ok)]
  /\ UNCHANGED << globalRand, rangeOrders >>

LegacyRcpt(p) ==
  /\ send[p].pc = LegacyPc("rcpt")
  /\ \E ok \in BOOLEAN : send' = [send EXCEPT ![p] = LegacyRcptStep(send[p], ok)]
  /\ UNCHANGED << globalRand, rangeOrders >>

LegacyData(p) ==
  /\ send[p].pc = LegacyPc("data")
  /\ \E ok \in BOOLEAN : send' = [send EXCEPT ![p] = LegacyDataStep(send[p], ok)]
  /\ UNCHANGED << globalRand, rangeOrders >>

LegacyWrite(p) ==
  /\ send[p].pc = LegacyPc("write")
  /\ \E ok \in BOOLEAN : send' = [send EXCEPT ![p] = LegacyWriteStep(send[p], ok)]
  /\ UNCHANGED << globalRand, rangeOrders >>

LegacyWcClose(p) ==
  /\ send[p].pc = LegacyPc("wcclose")
  /\ \E ok \in BOOLEAN : send' = [send EXCEPT ![p] = LegacyWcCloseStep(send[p], ok)]
  /\ UNCHANGED << globalRand, rangeOrders >>

LegacyQuit(p) ==
  /\ send[p].pc = LegacyPc("quit")
  /\ \E ok \in BOOLEAN : send' = [send EXCEPT ![p] = LegacyQuitStep(send[p], ok)]
  /\ UNCHANGED << globalRand, rangeOrders >>

\* caller 1 runs the current Send with one Body, caller 2 the legacy Send
\* with the same fields
InitLegacy ==
  /\ \E params \in { x \in ParamsSet : Len(x.Body) = 1 } :
       send = [p \in Procs |-> IF p = 1 THEN Called(params)
                                        ELSE LegacyCalled(LegacyOf(params))]
  /\ globalRand = 0
  /\ rangeOrders = ConcOrders

NextLegacy ==
  \/ Next
  \/ \E p \in Procs :
       \/ LegacyAssemble(p)
       \/ LegacyTlsDial(p)
       \/ LegacyNewClient(p)
       \/ LegacySmtpDial(p)
       \/ LegacyAuthCram(p)
       \/ LegacyAuthPlain(p)
       \/ LegacyMail(p)
       \/ LegacyRcpt(p)
       \/ LegacyData(p)
       \/ LegacyWrite(p)
       \/ LegacyWcClose(p)
       \/ LegacyQuit(p)

SpecLegacy == InitLegacy /\ [][NextLegacy]_vars

\* the bytes of a message: every line of the current API is followed by
\* "\r\n"; the legacy lines are separated by it and the last one is not
\* followed by it
RECURSIVE TerminateLines(_)
TerminateLines(lines) ==
  IF lines = <<>> THEN ""
  ELSE Head(lines) \o "\r\n" \o TerminateLines(Tail(lines))

RECURSIVE JoinLines(_)
JoinLines(lines) ==
  IF lines = <<>> THEN ""
  ELSE IF Len(lines) = 1 THEN lines[1]
  ELSE Head(lines) \o "\r\n" \o JoinLines(Tail(lines))

WireBytes(s) ==
  IF s.api = "legacy" THEN JoinLines(s.body) ELSE TerminateLines(s.body)

RemoveAt(seq, i) == SubSeq(seq, 1, i - 1) \o SubSeq(seq, i + 1, Len(seq))

\* the current and the legacy activation ranged over their maps in order o
SameOrder(o) ==
  /\ send[1].body = Message(send[1].params, o, <<>>)
  /\ send[2].body = LegacyMessage(send[2].params, o)

\* both Sends make the same calls as long as the server answers them alike,
\* and after the same answers both have returned or neither has, with nil
\* from both or from neither
SameSteps ==
  LET c1 == send[1].calls
      c2 == send[2].calls
      n == IF Len(c1) < Len(c2) THEN Len(c1) ELSE Len(c2)
      alike(k) == \A j \in 1..k : c1[j].ok = c2[j].ok
  IN /\ \A i \in 1..n :
          alike(i - 1) => /\ c1[i].name = c2[i].name
                          /\ c1[i].name # "Write" => c1[i].arg = c2[i].arg
     /\ (Returned(send[1]) /\ Returned(send[2]) /\ alike(n))
          => /\ Len(c1) = Len(c2)
             /\ (send[1].err = "nil") <=> (send[2].err = "nil")

BothWrote ==
  /\ \E i \in 1..Len(send[1].calls) : send[1].calls[i].name = "Write"
  /\ \E i \in 1..Len(send[2].calls) : send[2].calls[i].name = "Write"

\* C14 as claimed: the legacy Send and the current Send with the one Body
\* make the same calls, stop at the same call, and hand the same bytes to
\* Write (compared when both ranged over their header maps in one order).
C14_LegacySameBytes ==
  /\ SameSteps
  /\ \A o \in rangeOrders :
       (BothWrote /\ SameOrder(o)) => WireBytes(send[1]) = WireBytes(send[2])

\* C14 as amended: same calls and same stop; the messages hold the same
\* header lines and the same Data, but the legacy one has its Content-Type
\* line, ending in ";", right after the MIME-version line, an empty line
\* before the Data and no "\r\n" after it, so the bytes differ.
C14_LegacySubsumed ==
  /\ SameSteps
  /\ \A o \in rangeOrders :
       (BothWrote /\ SameOrder(o))
         => LET cur == send[1].body
                leg == send[2].body
                data == send[1].params.Body[1].Data
                k == CHOOSE i \in 1..4 : o[i] = "MIME-version"
            IN /\ leg[k + 1] = cur[5] \o ";"
               /\ leg[6] = ""
               /\ RemoveAt(RemoveAt(leg, 6), k + 1) = RemoveAt(cur, 5)
               /\ SubSeq(leg, 7, Len(leg)) = data
               /\ SubSeq(cur, 6, Len(cur)) = data
               /\ WireBytes(send[1]) # WireBytes(send[2])

C14_Witness ==
  /\ Returned(send[1])
  /\ Returned(send[2])
  /\ send[1].err = "nil"
  /\ send[2].err = "nil"
  /\ \E o \in rangeOrders : SameOrder(o) /\ o[1] = "MIME-version"

CallsNamed(s, name) == { i \in 1..Len(s.calls) : s.calls[i].name = name }

\* C15: a Send issues at most one Mail, carrying Header.From, and at most
\* one Rcpt, carrying Header.To and coming after the Mail succeeded; once
\* Mail has succeeded and Send has moved on, exactly one Rcpt was issued.
C15_OneMailOneRcpt ==
  \A p \in Procs :
    LET s == send[p]
    IN /\ Cardinality(CallsNamed(s, "Mail")) <= 1
       /\ Cardinality(CallsNamed(s, "Rcpt")) <= 1
       /\ \A i \in CallsNamed(s, "Mail") : s.calls[i].arg = << s.params.Header.From >>
       /\ \A i \in CallsNamed(s, "Rcpt") :
            /\ s.calls[i].arg = << s.params.Header.To >>
            /\ i > 1 /\ s.calls[i - 1].name = "Mail" /\ s.calls[i - 1].ok
       /\ (s.pc # "rcpt" /\ \E i \in CallsNamed(s, "Mail") : s.calls[i].ok)
            => Cardinality(CallsNamed(s, "Rcpt")) = 1

C15_Witness ==
  \E p \in Procs :
    /\ Returned(send[p])
    /\ send[p].err = "nil"
    /\ Cardinality(CallsNamed(send[p], "Rcpt")) = 1
    /\ send[p].params.Header.From # send[p].params.Header.To

\* C16: with a TlsConfig, smtp.Dial is never called, tls.Dial is the first
\* call, and every other call comes after tls.Dial succeeded (a failed
\* tls.Dial is the last call); without a TlsConfig, smtp.Dial is the first
\* call and neither tls.Dial nor smtp.NewClient is ever called.
C16_ModeFixedByTlsConfig ==
  \A p \in Procs :
    LET c == send[p].calls
    IN IF send[p].params.TlsConfig
         THEN /\ CallsNamed(send[p], "smtp.Dial") = {}
              /\ \A i \in 1..Len(c) :
                   IF i = 1 THEN c[i].name = "tls.Dial"
                   ELSE c[1].ok /\ c[i].name # "tls.Dial"
         ELSE /\ CallsNamed(send[p], "tls.Dial") = {}
              /\ CallsNamed(send[p], "smtp.NewClient") = {}
              /\ \A i \in 1..Len(c) : i = 1 <=> c[i].name = "smtp.Dial"

C16_Witness ==
  \E p \in Procs :
    /\ Returned(send[p])
    /\ send[p].params.TlsConfig
    /\ Len(send[p].calls) = 1
    /\ ~send[p].calls[1].ok

\* C17: with an empty Body list Send assembles the four header lines and
\* nothing else, generates no boundary, returns no error before the
\* Connect step, and goes on through the steps like any other Send: what it
\* hands to Write is that message, and it returns nil after Quit succeeded.
C17_EmptyBodyList ==
  \A p \in Procs :
    (send[p].api = "current" /\ Len(send[p].params.Body) = 0 /\ send[p].pc # "idle")
      => LET s == send[p]
         IN /\ Assembled(s)
                 => /\ Len(s.body) = 4
                    /\ { s.body[i] : i \in 1..4 } = HeaderLineSet(s.params.Header)
                    /\ s.boundary = <<>>
                    /\ \A i \in 1..4 : s.body[i] \notin ContentTypeLines
            /\ Returned(s) => Len(s.calls) >= 1
            /\ Returned(s)
                 => (s.err = "nil" <=> \E i \in CallsNamed(s, "Quit") : s.calls[i].ok)
            /\ \A i \in CallsNamed(s, "Write") : s.calls[i].arg = s.body
            /\ (s.pc = "wcclose") => CallsNamed(s, "Write") # {}

C17_Witness ==
  \E p \in Procs :
    /\ Len(send[p].params.Body) = 0
    /\ Returned(send[p])
    /\ send[p].err = "nil"
    /\ Len(Commands(send[p])) = 7
    /\ WriteDone(send[p])

====
